---- MODULE Spec2Model ----
(***************************************************************************)
(* Tax-regression analysis pipeline of CorporateTaxBehaviorAnalysis.       *)
(*                                                                         *)
(* Four scripts share one pipeline shape and differ in details:            *)
(*   "G"  Germany_Baseline_Tax_Study.py                                    *)
(*   "IB" Italy_Baseline_Tax_Study.py                                      *)
(*   "IC" Italy_Comprehensive_Tax_Study.py                                 *)
(*   "AS" analysis_script.py                                               *)
(*                                                                         *)
(* A cell value is a record [k, n, d]:                                     *)
(*   k = "num"  the rational n/d (d > 0)                                   *)
(*   k = "nan"  the absent marker (NaN)                                    *)
(*   k = "inf"  +inf (n = 1) or -inf (n = -1)                              *)
(*   k = "str"  a text cell: d = 1 is the text of the number n,            *)
(*              d = 0 is text that is no number                            *)
(*   k = "ln"   the natural logarithm of the positive rational n/d         *)
(* A table is [cols, rows]: the set of its column names and the bag of its *)
(* rows (a function from row to the number of rows holding those values).  *)
(* Every row record carries every field; only the fields named in cols     *)
(* are columns of the table.                                               *)
(***************************************************************************)
EXTENDS Integers, Sequences, FiniteSets, TLC

VARIABLES variant, df_raw, pc, cycles, todo, bases, all_sheets, report_lines,
          log, evals

vars == <<variant, df_raw, pc, cycles, todo, bases, all_sheets, report_lines,
          log, evals>>

----------------------------------------------------------------------------
(* Bounds of the model *)

MaxKinds == 2

(* Program constants *)

ETR_MIN == 0
G_MIN_OBS == 10
IB_MIN_OBS == 5
IC_MIN_OBS == 10
IC_MIN_IMPUTE == 5
AS_MIN_OBS == 5
AS_MIN_POSITIVE == 5

\* ETR_MAX of each script, as the rational n/d
ETR_MAX(v) == IF v = "IB" THEN [n |-> 1, d |-> 1] ELSE [n |-> 1, d |-> 2]

\* TARGET_COUNTRY / TARGET_UPE of each script
TARGET_COUNTRY(v) == IF v \in {"G", "AS"} THEN "Germany" ELSE "Italy"

controls == <<"employees", "tangible_assets", "related_revenues">>

LnName(c) ==
    CASE c = "employees" -> "ln_employees"
      [] c = "tangible_assets" -> "ln_tangible_assets"
      [] c = "related_revenues" -> "ln_related_revenues"

Range(s) == {s[i] : i \in DOMAIN s}

----------------------------------------------------------------------------
(* Cell values and their arithmetic (numpy float semantics) *)

Num(n) == [k |-> "num", n |-> n, d |-> 1]
Rat(n, d) == [k |-> "num", n |-> n, d |-> d]
NaN == [k |-> "nan", n |-> 0, d |-> 1]
Inf(s) == [k |-> "inf", n |-> s, d |-> 1]
TextNum(n) == [k |-> "str", n |-> n, d |-> 1]
TextJunk == [k |-> "str", n |-> 0, d |-> 0]

Sign(n) == IF n > 0 THEN 1 ELSE IF n < 0 THEN -1 ELSE 0
Abs(n) == IF n < 0 THEN -n ELSE n

isna(x) == x.k = "nan"
isinf(x) == x.k = "inf"

\* pd.to_numeric(col, errors='coerce') on one cell
to_numeric(x) ==
    IF x.k = "str" THEN (IF x.d = 0 THEN NaN ELSE Num(x.n)) ELSE x

\* x > 0 (False on NaN)
GtZero(x) == (x.k = "num" /\ x.n > 0) \/ (x.k = "inf" /\ x.n > 0)
\* x == 0
EqZero(x) == x.k = "num" /\ x.n = 0
\* x >= a/b and x < a/b for a rational bound a/b (b > 0); False on NaN
GeRat(x, a, b) == (x.k = "num" /\ x.n * b >= a * x.d) \/ (x.k = "inf" /\ x.n > 0)
LtRat(x, a, b) == (x.k = "num" /\ x.n * b < a * x.d) \/ (x.k = "inf" /\ x.n < 0)
\* x <= y on values (False when either is NaN)
Le(x, y) ==
    CASE x.k = "nan" \/ y.k = "nan" -> FALSE
      [] x.k = "inf" -> x.n < 0 \/ (y.k = "inf" /\ y.n > 0)
      [] y.k = "inf" -> y.n > 0
      [] OTHER -> x.n * y.d <= y.n * x.d

\* a / b
Div(a, b) ==
    CASE a.k = "nan" \/ b.k = "nan" -> NaN
      [] a.k = "inf" /\ b.k = "inf" -> NaN
      [] a.k = "inf" -> Inf(IF b.n < 0 THEN -a.n ELSE a.n)
      [] b.k = "inf" -> Num(0)
      [] b.n = 0 -> (IF a.n = 0 THEN NaN ELSE Inf(Sign(a.n)))
      [] OTHER -> Rat(a.n * b.d * Sign(b.n), a.d * Abs(b.n))

\* x ** 2
Square(x) ==
    CASE x.k = "nan" -> NaN
      [] x.k = "inf" -> Inf(1)
      [] OTHER -> Rat(x.n * x.n, x.d * x.d)

\* np.log(x)
Ln(x) ==
    CASE x.k = "nan" -> NaN
      [] x.k = "inf" -> (IF x.n > 0 THEN Inf(1) ELSE NaN)
      [] x.n = 0 -> Inf(-1)
      [] x.n < 0 -> NaN
      [] OTHER -> [k |-> "ln", n |-> x.n, d |-> x.d]

----------------------------------------------------------------------------
(* Bags of rows *)

RECURSIVE SumCounts(_, _)
SumCounts(B, S) ==
    IF S = {} THEN 0
    ELSE LET r == CHOOSE x \in S : TRUE IN B[r] + SumCounts(B, S \ {r})

\* len(df)
NRows(t) == SumCounts(t.rows, DOMAIN t.rows)

EmptyBag == [r \in {} |-> 0]

EmptyTable == [cols |-> {}, rows |-> EmptyBag]

\* df[mask]: the rows satisfying P
FilterRows(t, P(_)) ==
    [t EXCEPT !.rows = [r \in {x \in DOMAIN t.rows : P(x)} |-> t.rows[r]]]

\* every row rewritten by F
MapRows(t, F(_)) ==
    LET img == {F(r) : r \in DOMAIN t.rows}
    IN [t EXCEPT !.rows =
          [s \in img |-> SumCounts(t.rows, {r \in DOMAIN t.rows : F(r) = s})]]

\* df[c] = f(row): assign a column (added when new)
Assign(t, c, F(_)) ==
    LET u == MapRows(t, LAMBDA r : [r EXCEPT ![c] = F(r)])
    IN [u EXCEPT !.cols = @ \cup {c}]

\* df.dropna(subset=S)
dropna(t, S) == FilterRows(t, LAMBDA r : \A c \in S : ~isna(r[c]))

----------------------------------------------------------------------------
(* Base builders                                                           *)
(*                                                                         *)
(* A builder is a chain of steps on a record st:                           *)
(*   t       the table as the step leaves it                               *)
(*   cc      the table as the complete-case deletion (dropna) left it      *)
(*   logged  the control list built so far                                 *)
(*   lnArgs  the values np.log has been applied to                         *)
(*   etrDen  the values of profit_before_tax a tax has been divided by     *)

StringCols == {"upe_name", "jurisdiction", "sector"}

\* the value a field holds in a table that has no such column
Blank(c) == IF c \in StringCols THEN "" ELSE NaN

\* df[S]: keep only the columns S
Select(t, S) ==
    [MapRows(t, LAMBDA r : [c \in DOMAIN r |-> IF c \in S THEN r[c] ELSE Blank(c)])
       EXCEPT !.cols = S]

\* df[df[c] == name]
WhereEq(t, c, name) == FilterRows(t, LAMBDA r : r[c] = name)

\* number of rows satisfying P: (mask).sum()
CountRows(t, P(_)) == NRows(FilterRows(t, P))

\* a faulty window that admits ETR = ETR_MAX
InWindow_Closed(x, v) ==
    GeRat(x, ETR_MIN, 1) /\ x.k = "num" /\ x.n * ETR_MAX(v).d <= ETR_MAX(v).n * x.d

\* the ETR window filter: (ETR >= ETR_MIN) & (ETR < ETR_MAX)
InWindow(x, v) == GeRat(x, ETR_MIN, 1) /\ LtRat(x, ETR_MAX(v).n, ETR_MAX(v).d)

\* df[c] = pd.to_numeric(df[c], errors='coerce') for every c in S
Coerce(t, S) ==
    MapRows(t, LAMBDA r : [c \in DOMAIN r |-> IF c \in S THEN to_numeric(r[c]) ELSE r[c]])

\* [c for c in controls if c in df.columns]
InColumns(t, cs) == SelectSeq(cs, LAMBDA c : c \in t.cols)

Start(t) == [t |-> t, cc |-> t, logged |-> <<>>, lnArgs |-> {}, etrDen |-> {}]

\* df.dropna(subset=...).copy()
DropAbsent(st, subset) ==
    [st EXCEPT !.t = dropna(st.t, subset), !.cc = dropna(st.t, subset)]

\* a faulty builder that leaves the profit filter out
PositiveProfit_Skipped(st) == st

\* gb = gb[gb['profit_before_tax'] > 0]
PositiveProfit(st) ==
    [st EXCEPT !.t = FilterRows(st.t, LAMBDA r : GtZero(r["profit_before_tax"]))]

\* gb['ETR'] = gb[tax_col] / gb['profit_before_tax']
ComputeETR(st, tax_col) ==
    [st EXCEPT
       !.t = Assign(st.t, "ETR", LAMBDA r : Div(r[tax_col], r["profit_before_tax"])),
       !.etrDen = @ \cup {r["profit_before_tax"] : r \in DOMAIN st.t.rows}]

\* gb = gb[(gb['ETR'] >= ETR_MIN) & (gb['ETR'] < ETR_MAX)]
Window(st, v) == [st EXCEPT !.t = FilterRows(st.t, LAMBDA r : InWindow(r["ETR"], v))]

\* gb['ln_profits'] = np.log(gb['profit_before_tax'])
LnProfits(st) ==
    [st EXCEPT
       !.t = Assign(st.t, "ln_profits", LAMBDA r : Ln(r["profit_before_tax"])),
       !.lnArgs = @ \cup {r["profit_before_tax"] : r \in DOMAIN st.t.rows}]

\* gb['ETR_sq'] = gb['ETR'] ** 2
EtrSq(st) == [st EXCEPT !.t = Assign(st.t, "ETR_sq", LAMBDA r : Square(r["ETR"]))]

\* a faulty builder that leaves the positivity filter of a control out
PositiveControl_Skipped(st, c) == st

\* gb = gb[gb[c] > 0]
PositiveControl(st, c) == [st EXCEPT !.t = FilterRows(st.t, LAMBDA r : GtZero(r[c]))]

\* gb['ln_c'] = np.log(gb[c]); logged_controls.append('ln_c')
LogControl(st, c) ==
    [st EXCEPT
       !.t = Assign(st.t, LnName(c), LAMBDA r : Ln(r[c])),
       !.logged = Append(@, LnName(c)),
       !.lnArgs = @ \cup {r[c] : r \in DOMAIN st.t.rows}]

\* dropna / profit > 0 / ETR / window / ln_profits / ETR_sq, in the order of the
\* Germany and Italy baseline scripts
CoreBase(t, tax_col, subset, v) ==
    EtrSq(LnProfits(Window(ComputeETR(PositiveProfit(DropAbsent(Start(t), subset)),
                                      tax_col), v)))

\* for c in valid_controls: filter c > 0, log it, append it
RECURSIVE LogControls(_, _)
LogControls(st, cs) ==
    IF cs = <<>> THEN st
    ELSE LogControls(LogControl(PositiveControl(st, Head(cs)), Head(cs)), Tail(cs))

\* what create_global_clean_bases returns, and the df it has written to
GlobalBases(df, one, two) ==
    [raised |-> FALSE, df |-> df, gb1 |-> one.t, gb2 |-> two.t, cc |-> two.cc,
     logged_controls |-> two.logged,
     lnArgs |-> one.lnArgs \cup two.lnArgs,
     etrDen |-> one.etrDen \cup two.etrDen]

\* Germany_Baseline_Tax_Study.create_global_clean_bases(df, tax_col): Base 1 is
\* taken before the controls are made numeric
G_create_global_clean_bases(df, tax_col) ==
    IF ~({"profit_before_tax", tax_col} \subseteq df.cols)
    THEN [raised |-> TRUE, df |-> df]
    ELSE GlobalBases(
           Coerce(df, {"profit_before_tax", tax_col} \cup Range(InColumns(df, controls))),
           CoreBase(Coerce(df, {"profit_before_tax", tax_col}), tax_col,
                    {"profit_before_tax", tax_col}, "G"),
           LogControls(
             CoreBase(Coerce(df, {"profit_before_tax", tax_col}
                                   \cup Range(InColumns(df, controls))),
                      tax_col,
                      {"profit_before_tax", tax_col} \cup Range(InColumns(df, controls)),
                      "G"),
             InColumns(df, controls)))

\* Italy_Baseline_Tax_Study.create_global_clean_bases(df, tax_col): every column is
\* made numeric before Base 1
IB_create_global_clean_bases(df, tax_col) ==
    IF ~({"profit_before_tax", tax_col} \subseteq df.cols)
    THEN [raised |-> TRUE, df |-> df]
    ELSE GlobalBases(
           Coerce(df, {"profit_before_tax", tax_col} \cup Range(InColumns(df, controls))),
           CoreBase(Coerce(df, {"profit_before_tax", tax_col}
                                 \cup Range(InColumns(df, controls))),
                    tax_col, {"profit_before_tax", tax_col}, "IB"),
           LogControls(
             CoreBase(Coerce(df, {"profit_before_tax", tax_col}
                                   \cup Range(InColumns(df, controls))),
                      tax_col,
                      {"profit_before_tax", tax_col} \cup Range(InColumns(df, controls)),
                      "IB"),
             InColumns(df, controls)))

METADATA_COLUMNS ==
    {"sector", "upe_name", "profit_before_tax", "tax_paid", "employees",
     "tangible_assets", "tax_accrued", "related_revenues"}

AS_numeric_cols ==
    {"profit_before_tax", "tax_paid", "employees", "tangible_assets",
     "tax_accrued", "related_revenues"}

\* df.dropna(axis=1, how='all'): the columns with a value in some row
NonEmptyCols(t) ==
    {c \in t.cols : \E r \in DOMAIN t.rows : c \in StringCols \/ ~isna(r[c])}

DropEmptyCols(t) == Select(t, NonEmptyCols(t))

\* analysis_script.StrictDataCleaner.create_master_clean_file
\* (the blank/'None' text replacement of step 3 yields NaN exactly where the
\* type enforcement of step 5 does on the numeric columns)
create_master_clean_file(raw_df, country) ==
    IF "upe_name" \notin raw_df.cols THEN [raised |-> TRUE, df |-> raw_df]
    ELSE [raised |-> FALSE,
          df |-> DropEmptyCols(
                   dropna(Coerce(Select(WhereEq(raw_df, "upe_name", country),
                                        raw_df.cols \cap METADATA_COLUMNS),
                                 AS_numeric_cols \cap raw_df.cols),
                          {"profit_before_tax", "tax_accrued"} \cap raw_df.cols))]

\* lines 118-122: profit > 0 and the window in one mask
AS_Filter(st) ==
    [st EXCEPT !.t = FilterRows(st.t, LAMBDA r : GtZero(r["profit_before_tax"])
                                                 /\ InWindow(r["ETR"], "AS"))]

\* lines 115-124: Base 1 (ETR is computed before profit > 0 is asked for)
AS_Base1(df, tax_col) ==
    EtrSq(LnProfits(AS_Filter(ComputeETR(
        DropAbsent(Start(df), {"profit_before_tax", tax_col}), tax_col))))

\* the control passes the test of line 133: (base2[ctrl] > 0).sum() > 5
AS_ControlIsValid(t, c) ==
    c \in t.cols /\ CountRows(t, LAMBDA r : GtZero(r[c])) > AS_MIN_POSITIVE

\* lines 128-134
AS_valid_controls(t) == SelectSeq(controls, LAMBDA x : AS_ControlIsValid(t, x))

\* what prepare_datasets returns
AS_Bases(one, two) ==
    [raised |-> FALSE, none |-> FALSE, base1 |-> one.t, base2 |-> two.t,
     cc |-> two.cc, valid_controls |-> AS_valid_controls(one.t),
     lnArgs |-> two.lnArgs, etrDen |-> two.etrDen]

\* a faulty Base 2 that starts from the table the deletion left, not from Base 1
AS_Base2_FromSource(one) ==
    LogControls(DropAbsent([one EXCEPT !.t = one.cc], Range(AS_valid_controls(one.t))),
                AS_valid_controls(one.t))

\* lines 136-139: Base 2 from Base 1
AS_Base2(one) ==
    LogControls(DropAbsent(one, Range(AS_valid_controls(one.t))),
                AS_valid_controls(one.t))

AS_BothBases(one) == AS_Bases(one, AS_Base2(one))

\* analysis_script.Analyzer.prepare_datasets(tax_col)
prepare_datasets(df, tax_col) ==
    IF tax_col \notin df.cols THEN [raised |-> FALSE, none |-> TRUE]
    ELSE IF "profit_before_tax" \notin df.cols THEN [raised |-> TRUE, none |-> FALSE]
    ELSE AS_BothBases(AS_Base1(df, tax_col))

IC_numeric_cols ==
    {"profit_before_tax", "tax_accrued", "tax_paid", "employees",
     "tangible_assets", "related_revenues"}

\* Italy_Comprehensive_Tax_Study.load_and_standardize_data: the numeric coercion
IC_load_and_standardize_data(raw) == Coerce(raw, IC_numeric_cols \cap raw.cols)

\* the columns prepare_data_and_analyze works on
IC_cols(tax_col) == {"profit_before_tax", tax_col} \cup Range(controls)

\* a faulty preparation that leaves the zeros of the controls in place
ZeroToNaN_Skipped(t) == t

\* line 112: data[controls] = data[controls].replace(0, np.nan)
ZeroToNaN(t) ==
    MapRows(t, LAMBDA r :
       [c \in DOMAIN r |->
          IF c \in Range(controls) /\ EqZero(r[c]) THEN NaN ELSE r[c]])

\* a faulty Complete-Case step that replaces the zeros after the deletion
IC_complete_case_Late(data) == ZeroToNaN(dropna(data, data.cols))

\* lines 112-116 as one step on a table: 0 -> NaN on the controls, then dropna()
IC_complete_case(data) == dropna(ZeroToNaN(data), data.cols)

\* lines 107-112: country filter, column selection, 0 -> NaN on the controls
IC_candidate(df, tax_col) ==
    ZeroToNaN(Select(WhereEq(df, "upe_name", TARGET_COUNTRY("IC")), IC_cols(tax_col)))

\* the cells IterativeImputer has to fill
NaNCells(t) == {rc \in (DOMAIN t.rows) \X t.cols : isna(rc[1][rc[2]])}

\* imputer.fit_transform raises on an infinite input cell; it leaves out a column
\* with no observed value, so the DataFrame rebuilt with all column names raises
ImputerRaises(t) ==
    \/ \E r \in DOMAIN t.rows : \E c \in t.cols : isinf(r[c])
    \/ \E c \in t.cols : \A r \in DOMAIN t.rows : isna(r[c])

\* a faulty imputer that also raises the observed values below min_value to it
fit_transform_Clipped(t, fill) ==
    MapRows(t, LAMBDA r :
       [c \in DOMAIN r |->
          IF c \in t.cols /\ isna(r[c]) THEN fill[<<r, c>>]
          ELSE IF c \in t.cols /\ LtRat(r[c], 1, 10) THEN Rat(1, 10) ELSE r[c]])

\* imputer.fit_transform(data): every absent cell gets the value fill chooses
fit_transform(t, fill) ==
    MapRows(t, LAMBDA r :
       [c \in DOMAIN r |->
          IF c \in t.cols /\ isna(r[c]) THEN fill[<<r, c>>] ELSE r[c]])

\* what a call did with the imputer: whether the call is of method 'Imputation'
\* (called), the rows of its candidate table (n), whether fit_transform was
\* called (fitted), the control values it was given as observed (seen), the
\* values it filled in (filled), the table it returned (out), and whether the
\* call returned None with a message (none, msg), and the candidate table the
\* call handed or would have handed to the imputer (given), and the number of
\* rounds the imputer's loop made (iters)
NoImputation ==
    [called |-> FALSE, n |-> 0, fitted |-> FALSE, seen |-> {}, filled |-> {},
     out |-> EmptyTable, none |-> FALSE, msg |-> "", given |-> EmptyTable,
     iters |-> 0]

\* the control values fit_transform is given as observed values
ObservedControls(t) ==
    {r[c] : r \in DOMAIN t.rows, c \in Range(controls)} \ {NaN}

\* lines 123-130 as the call saw them
Imputation(data, fitted, filled, out, msg) ==
    [called |-> TRUE, n |-> NRows(data), fitted |-> fitted,
     seen |-> IF fitted THEN ObservedControls(data) ELSE {},
     filled |-> filled, out |-> out, none |-> msg # "", msg |-> msg, given |-> data,
     iters |-> 0]

\* lines 140-141: for c in ['profit_before_tax'] + controls: data = data[data[c] > 0]
RECURSIVE KeepPositive(_, _)
KeepPositive(st, cs) ==
    IF cs = <<>> THEN st ELSE KeepPositive(PositiveControl(st, Head(cs)), Tail(cs))

\* lines 144-145: for c in controls: data['ln_c'] = np.log(data[c])
RECURSIVE IC_LogControls(_, _)
IC_LogControls(st, cs) ==
    IF cs = <<>> THEN st ELSE IC_LogControls(LogControl(st, Head(cs)), Tail(cs))

\* lines 132-147 of prepare_data_and_analyze, on the table the method left
IC_finish(data, tax_col) ==
    EtrSq(IC_LogControls(LnProfits(KeepPositive(
        Window(ComputeETR(PositiveProfit(Start(data)), tax_col), "IC"),
        <<"profit_before_tax">> \o controls)), controls))

\* what prepare_data_and_analyze returns when it returns a table
IC_Data(st) ==
    [raised |-> FALSE, none |-> FALSE, msg |-> "", data |-> st.t, cc |-> st.cc,
     lnArgs |-> st.lnArgs, etrDen |-> st.etrDen, imp |-> NoImputation]

\* lines 115-130: the method, given the candidate table
IC_method(data, tax_col, method, fill) ==
    IF method = "CC"
    THEN [IC_Data(IC_finish(dropna(data, data.cols), tax_col))
            EXCEPT !.imp = NoImputation]
    ELSE IF NRows(data) > IC_MIN_IMPUTE
         THEN IF ImputerRaises(data)
              THEN [raised |-> TRUE, none |-> FALSE, msg |-> "",
                    imp |-> Imputation(data, TRUE, {}, EmptyTable, "")]
              ELSE [IC_Data(IC_finish(fit_transform(data, fill), tax_col))
                      EXCEPT !.imp = Imputation(data, TRUE, Range(fill),
                                                fit_transform(data, fill), "")]
         ELSE [raised |-> FALSE, none |-> TRUE, msg |-> "Insufficient data",
               imp |-> Imputation(data, FALSE, {}, EmptyTable, "Insufficient data")]

\* Italy_Comprehensive_Tax_Study.prepare_data_and_analyze(df, tax_col, method);
\* fill is the imputer's choice of values
prepare_data_and_analyze(df, tax_col, method, fill) ==
    IF "upe_name" \notin df.cols \/ ~(IC_cols(tax_col) \subseteq df.cols)
    THEN [raised |-> TRUE, none |-> FALSE, msg |-> "", imp |-> NoImputation]
    ELSE IC_method(IC_candidate(df, tax_col), tax_col, method, fill)

----------------------------------------------------------------------------
(* Regression and the U-test *)

\* A formula is [quad, ctrls, suffix]: "ln_profits ~ ETR", " + ETR_sq" when quad,
\* and, when suffix, " + " followed by " + ".join(ctrls)
Formula(quad, ctrls, suffix) == [quad |-> quad, ctrls |-> ctrls, suffix |-> suffix]

\* the columns a formula reads
FormulaVars(f) ==
    {"ln_profits", "ETR"} \cup (IF f.quad THEN {"ETR_sq"} ELSE {}) \cup Range(f.ctrls)

\* the regressors of a formula (the design matrix without the intercept)
Regressors(f) == FormulaVars(f) \ {"ln_profits"}

\* the rows patsy hands to OLS: rows with NaN in a formula variable are dropped
DesignRows(df, f) == dropna(df, FormulaVars(f) \cap df.cols)

\* the values of df['ETR']
EtrValues(df) == {r["ETR"] : r \in DOMAIN df.rows}

\* smf.ols(formula, data=df).fit() raises: a formula ending in "+", a variable that
\* is no column, no row at all, an infinite regressor
OlsRaises(df, f) ==
    \/ f.suffix /\ f.ctrls = <<>>
    \/ ~(FormulaVars(f) \subseteq df.cols)
    \/ NRows(DesignRows(df, f)) = 0
    \/ \E r \in DOMAIN DesignRows(df, f).rows : \E c \in Regressors(f) : isinf(r[c])

\* an infinite ln_profits makes every fitted coefficient NaN
OlsNaN(df, f) == \E r \in DOMAIN DesignRows(df, f).rows : isinf(r["ln_profits"])

\* every ETR the fit sees is 0: the ETR and ETR_sq columns of the design matrix
\* are zero and the least-norm solution gives both the coefficient 0
OlsDegenerate(df, f) == \A x \in EtrValues(DesignRows(df, f)) : EqZero(x)

\* str(e) of the exception smf.ols(formula, data=df).fit() raises
OlsError(df, f) ==
    IF f.suffix /\ f.ctrls = <<>> THEN "PatsyError: expected a noun, but instead the expression ended"
    ELSE IF ~(FormulaVars(f) \subseteq df.cols) THEN "PatsyError: Error evaluating factor: NameError"
    ELSE IF NRows(DesignRows(df, f)) = 0 THEN "ValueError: zero-size array to reduction operation"
    ELSE IF OlsRaises(df, f) THEN "MissingDataError: exog contains inf or nans"
    ELSE ""

\* coefficients (ETR, ETR_sq) a fit of other data may return
CoefChoices == {<<Rat(-4, 10), Rat(8, 10)>>, <<Rat(2, 10), Rat(-8, 10)>>}

\* the outcomes of smf.ols(...).fit() on df: [ok, b1, b2]
FitChoices(df, f) ==
    IF OlsRaises(df, f) THEN {[ok |-> FALSE, b1 |-> NaN, b2 |-> NaN, err |-> OlsError(df, f)]}
    ELSE IF OlsNaN(df, f) THEN {[ok |-> TRUE, b1 |-> NaN, b2 |-> NaN, err |-> ""]}
    ELSE IF OlsDegenerate(df, f) THEN {[ok |-> TRUE, b1 |-> Num(0), b2 |-> Num(0), err |-> ""]}
    ELSE IF f.quad THEN {[ok |-> TRUE, b1 |-> c[1], b2 |-> c[2], err |-> ""] : c \in CoefChoices}
    ELSE {[ok |-> TRUE, b1 |-> Rat(-4, 10), b2 |-> NaN, err |-> ""]}

\* 'ETR_sq' in model.params
HasEtrSq(f) == "ETR_sq" \in Regressors(f)

Neg(x) == IF x.k \in {"num", "inf"} THEN [x EXCEPT !.n = -x.n] ELSE x
Twice(x) == IF x.k = "num" THEN [x EXCEPT !.n = 2 * x.n] ELSE x

\* a faulty turning point that divides whatever b2 is
turning_point_Unguarded(b1, b2) ==
    [tp |-> Div(Neg(b1), Twice(b2)), den |-> {Twice(b2)}]

\* tp = -b1 / (2*b2) if b2 != 0 else 0; den is what the division divided by
turning_point(b1, b2) ==
    IF ~EqZero(b2) THEN [tp |-> Div(Neg(b1), Twice(b2)), den |-> {Twice(b2)}]
    ELSE [tp |-> Num(0), den |-> {}]

\* df['ETR'].min(), df['ETR'].max() (NaN skipped; NaN on an empty column)
MinOf(S) ==
    LET T == {x \in S : ~isna(x)}
    IN IF T = {} THEN NaN ELSE CHOOSE x \in T : \A y \in T : Le(x, y)
MaxOf(S) ==
    LET T == {x \in S : ~isna(x)}
    IN IF T = {} THEN NaN ELSE CHOOSE x \in T : \A y \in T : Le(y, x)

\* is_valid = min_etr <= tp <= max_etr
is_valid(df, tp) == Le(MinOf(EtrValues(df)), tp) /\ Le(tp, MaxOf(EtrValues(df)))

\* a report entry
Block(kind, title) ==
    [kind |-> kind, title |-> title, quad |-> FALSE, b1 |-> NaN, b2 |-> NaN,
     verdict |-> FALSE, tp |-> NaN, den |-> {}, shape |-> "", flag |-> "",
     n |-> 0, fittedEtr |-> {}, cause |-> ""]

\* a faulty except branch that leaves the cause out
Failed_NoCause(title, e) == Block("failed", title)

\* except Exception as e: out += f"\\nRegression Failed: {str(e)}"
Failed(title, e) == [Block("failed", title) EXCEPT !.cause = e]

\* the entry of a fit that succeeded, with the U-test lines of the Germany and
\* Italy scripts; df is what min and max are taken over, fitted the rows OLS saw
FitBlock(title, f, fit, df, fitted) ==
    LET u == turning_point(fit.b1, fit.b2)
    IN [Block("fit", title) EXCEPT
          !.quad = f.quad, !.b1 = fit.b1, !.b2 = fit.b2,
          !.n = NRows(fitted), !.fittedEtr = EtrValues(fitted),
          !.verdict = HasEtrSq(f),
          !.tp = IF HasEtrSq(f) THEN u.tp ELSE NaN,
          !.den = IF HasEtrSq(f) THEN u.den ELSE {},
          !.flag = IF HasEtrSq(f)
                   THEN (IF is_valid(df, u.tp) THEN "YES" ELSE "NO") ELSE ""]

\* Germany_Baseline_Tax_Study.run_regression
G_run_regression(df, f, title, fit) ==
    IF fit.ok THEN FitBlock(title, f, fit, df, DesignRows(df, f))
    ELSE Failed(title, fit.err)

\* Italy_Baseline_Tax_Study.run_regression
IB_run_regression(df, f, title, fit) ==
    IF NRows(df) < IB_MIN_OBS THEN Block("insufficient", title)
    ELSE IF fit.ok THEN FitBlock(title, f, fit, df, DesignRows(df, f))
    ELSE Failed(title, fit.err)

\* lines 80-82: df.replace([np.inf, -np.inf], np.nan).dropna() when an infinite
\* number is present
IC_drop_infinite(df) ==
    IF \E r \in DOMAIN df.rows : \E c \in df.cols \ StringCols : isinf(r[c])
    THEN FilterRows(df, LAMBDA r : \A c \in df.cols \ StringCols :
                                      ~isinf(r[c]) /\ ~isna(r[c]))
    ELSE df

\* a faulty regression step that takes min and max over the table it was given
IC_run_regression_Stale(df, f, title, fit) ==
    IF fit.ok THEN FitBlock(title, f, fit, df, DesignRows(IC_drop_infinite(df), f))
    ELSE Failed(title, fit.err)

\* Italy_Comprehensive_Tax_Study.run_regression
IC_run_regression(df, f, title, fit) ==
    LET df2 == IC_drop_infinite(df)
    IN IF fit.ok THEN FitBlock(title, f, fit, df2, DesignRows(df2, f))
       ELSE Failed(title, fit.err)

\* shape = "Inverted U" if b2 < 0 else "U-Shape"
AS_shape(b2) == IF LtRat(b2, 0, 1) THEN "Inverted U" ELSE "U-Shape"

\* analysis_script.Analyzer.run_regression: the U-test line carries the shape and
\* the turning point, and no in-range flag
AS_run_regression(df, f, title, fit) ==
    IF NRows(df) < AS_MIN_OBS THEN Block("insufficient", title)
    ELSE IF fit.ok
         THEN LET u == turning_point(fit.b1, fit.b2)
                  fitted == DesignRows(df, f)
              IN [Block("fit", title) EXCEPT
                    !.quad = f.quad, !.b1 = fit.b1, !.b2 = fit.b2,
                    !.n = NRows(fitted), !.fittedEtr = EtrValues(fitted),
                    !.verdict = HasEtrSq(f),
                    !.tp = IF HasEtrSq(f) THEN u.tp ELSE NaN,
                    !.den = IF HasEtrSq(f) THEN u.den ELSE {},
                    !.shape = IF HasEtrSq(f) THEN AS_shape(fit.b2) ELSE ""]
         ELSE Failed(title, fit.err)

----------------------------------------------------------------------------
(* Input tables *)

Variants == {"G", "IB", "IC", "AS"}

RawCols ==
    {"upe_name", "jurisdiction", "sector", "profit_before_tax", "tax_accrued",
     "tax_paid", "employees", "tangible_assets", "related_revenues"}

\* a record of the input whose every filter passes
GoodRow(v) ==
    [upe_name |-> TARGET_COUNTRY(v), jurisdiction |-> "All", sector |-> "Utilities",
     profit_before_tax |-> Num(4), tax_accrued |-> Num(1), tax_paid |-> Num(1),
     employees |-> Num(2), tangible_assets |-> Num(2), related_revenues |-> Num(2),
     ETR |-> NaN, ETR_sq |-> NaN, ln_profits |-> NaN, ln_employees |-> NaN,
     ln_tangible_assets |-> NaN, ln_related_revenues |-> NaN]

\* the records of the input: the good record with one field changed (a loss
\* comes with a negative tax, so that tax / profit is positive)
RowChoices(v) ==
    LET g == GoodRow(v)
    IN <<g,
         [g EXCEPT !.upe_name = "Other"],
         [g EXCEPT !.profit_before_tax = TextJunk],
         [g EXCEPT !.profit_before_tax = Num(0)],
         [g EXCEPT !.profit_before_tax = Num(-4), !.tax_accrued = Num(-1),
                   !.tax_paid = Num(-1)],
         [g EXCEPT !.profit_before_tax = Inf(1)],
         [g EXCEPT !.tax_accrued = Num(0)],
         [g EXCEPT !.tax_accrued = Num(2)],
         [g EXCEPT !.tax_accrued = NaN],
         [g EXCEPT !.employees = Num(0)],
         [g EXCEPT !.employees = NaN],
         [g EXCEPT !.employees = Num(-2)],
         [g EXCEPT !.tangible_assets = Inf(1)],
         [g EXCEPT !.related_revenues = TextNum(2)]>>
       \o (IF v = "IB"
           THEN <<[g EXCEPT !.upe_name = "ITALY"],
                  [g EXCEPT !.jurisdiction = "Italy"],
                  [g EXCEPT !.sector = "Other"]>>
           ELSE <<>>)

\* the sets of at most k numbers of 1..n
RECURSIVE Picks(_, _)
Picks(n, k) ==
    IF k = 0 \/ n = 0 THEN {{}}
    ELSE Picks(n - 1, k) \cup {P \cup {n} : P \in Picks(n - 1, k - 1)}

\* how many records of one kind a table holds
CountChoices == {1, 5, 15}

\* the column sets of the input
ColsChoices ==
    {RawCols, RawCols \ {"related_revenues"}, RawCols \ {"tax_paid"},
     RawCols \ {"upe_name"}}

NoBases ==
    [built |-> FALSE, tax |-> "", method |-> "", has1 |-> FALSE, has2 |-> FALSE,
     gb1 |-> EmptyTable, gb2 |-> EmptyTable, ctrls |-> <<>>,
     b1 |-> EmptyTable, b2 |-> EmptyTable, src |-> EmptyTable, cc |-> EmptyTable]

Init ==
    /\ variant \in Variants
    /\ \E cols \in ColsChoices :
       \E kinds \in Picks(Len(RowChoices(variant)), MaxKinds) :
       \E counts \in [kinds -> CountChoices] :
          df_raw = Select([cols |-> RawCols,
                           rows |-> [r \in {RowChoices(variant)[i] : i \in kinds} |->
                                       counts[CHOOSE i \in kinds : RowChoices(variant)[i] = r]]],
                          cols)
    /\ pc = "load"
    /\ cycles = <<>>
    /\ todo = <<>>
    /\ bases = NoBases
    /\ all_sheets = <<>>
    /\ report_lines = <<>>
    /\ log = <<>>
    /\ evals = [ln |-> {}, etrDen |-> {}, tpDen |-> {}, imp |-> NoImputation]

\* a faulty report that puts the block of a failed regression at its top
appended_FailedOnTop(lines, blk) ==
    IF blk.kind = "failed" THEN <<blk>> \o lines ELSE Append(lines, blk)

\* report_lines.append(run_regression(...))
appended(lines, blk) == Append(lines, blk)

\* where main goes once the calls of a cycle are made
After(td, cy) == IF td # <<>> THEN "regress" ELSE IF cy # <<>> THEN "cycle" ELSE "save"

Cycle(tax, method) == [tax |-> tax, method |-> method]
Call(base, f, title) == [base |-> base, f |-> f, title |-> title]
Sheet(name, t) == [name |-> name, t |-> t]
Text(tax, method, what) == Block("text", <<tax, method, "", what>>)

----------------------------------------------------------------------------
(* Germany_Baseline_Tax_Study.main *)

G_Load ==
    /\ variant = "G" /\ pc = "load"
    /\ cycles' = <<Cycle("tax_accrued", ""), Cycle("tax_paid", "")>>
    /\ pc' = "cycle"
    /\ UNCHANGED <<variant, df_raw, todo, bases, all_sheets, report_lines, log, evals>>

\* one "PROCESS ... TAX" section up to its first regression call
G_Cycle ==
    /\ variant = "G" /\ pc = "cycle" /\ cycles # <<>>
    /\ \E tax \in {Head(cycles).tax} :
       \E res \in {G_create_global_clean_bases(df_raw, tax)} :
          IF res.raised \/ "upe_name" \notin df_raw.cols
          THEN /\ pc' = "crashed"
               /\ df_raw' = res.df
               /\ all_sheets' =
                    IF res.raised THEN all_sheets
                    ELSE all_sheets \o <<Sheet(<<"Global", tax, "BASE_1">>, res.gb1),
                                         Sheet(<<"Global", tax, "BASE_2">>, res.gb2)>>
               /\ evals' = IF res.raised THEN evals
                           ELSE [evals EXCEPT !.ln = @ \cup res.lnArgs,
                                              !.etrDen = @ \cup res.etrDen]
               /\ UNCHANGED <<variant, cycles, todo, bases, report_lines, log>>
          ELSE
            \E de1 \in {WhereEq(res.gb1, "upe_name", TARGET_COUNTRY("G"))} :
            \E de2 \in {WhereEq(res.gb2, "upe_name", TARGET_COUNTRY("G"))} :
            \E calls1 \in {IF NRows(de1) > G_MIN_OBS
                          THEN <<Call("b1", Formula(FALSE, <<>>, FALSE), <<tax, "", "B1", "Linear">>),
                                 Call("b1", Formula(TRUE, <<>>, FALSE), <<tax, "", "B1", "Non-Linear">>)>>
                          ELSE <<>>} :
            \E calls2 \in {IF NRows(de2) > G_MIN_OBS
                          THEN <<Call("b2", Formula(FALSE, res.logged_controls, TRUE), <<tax, "", "B2", "Linear">>),
                                 Call("b2", Formula(TRUE, res.logged_controls, TRUE), <<tax, "", "B2", "Non-Linear">>)>>
                          ELSE <<>>} :
               /\ df_raw' = res.df
               /\ bases' = [built |-> TRUE, tax |-> tax, method |-> "",
                            has1 |-> TRUE, has2 |-> TRUE,
                            gb1 |-> res.gb1, gb2 |-> res.gb2,
                            ctrls |-> res.logged_controls, b1 |-> de1, b2 |-> de2,
                            src |-> df_raw, cc |-> res.cc]
               /\ all_sheets' = all_sheets \o
                      <<Sheet(<<"Global", tax, "BASE_1">>, res.gb1),
                        Sheet(<<"Global", tax, "BASE_2">>, res.gb2),
                        Sheet(<<"DE", tax, "BASE_1">>, de1),
                        Sheet(<<"DE", tax, "BASE_2">>, de2)>>
               /\ report_lines' = Append(report_lines, Text(tax, "", "header"))
               /\ log' = IF NRows(de2) > G_MIN_OBS THEN log
                         ELSE Append(log, <<tax, "", "B2", "Not enough data">>)
               /\ todo' = calls1 \o calls2
               /\ cycles' = Tail(cycles)
               /\ pc' = After(calls1 \o calls2, Tail(cycles))
               /\ evals' = [evals EXCEPT !.ln = @ \cup res.lnArgs,
                                         !.etrDen = @ \cup res.etrDen]
               /\ UNCHANGED variant

\* the table a pending call regresses on
CallTable(c) == IF c.base = "b1" THEN bases.b1 ELSE bases.b2

\* one report_lines.append(run_regression(...)) of main
G_Regress ==
    /\ variant = "G" /\ pc = "regress" /\ todo # <<>>
    /\ \E c \in {Head(todo)} :
       \E df \in {CallTable(c)} :
       \E fit \in FitChoices(df, c.f) :
       \E blk \in {G_run_regression(df, c.f, c.title, fit)} :
          /\ report_lines' = appended(report_lines, blk)
          /\ evals' = [evals EXCEPT !.tpDen = @ \cup blk.den]
    /\ todo' = Tail(todo)
    /\ pc' = After(Tail(todo), cycles)
    /\ UNCHANGED <<variant, df_raw, cycles, bases, all_sheets, log>>

----------------------------------------------------------------------------
(* Italy_Baseline_Tax_Study.main *)

TARGET_SECTOR == "Utilities"

\* str.lower() on the texts of the input
Lower(x) ==
    CASE x \in {"Italy", "ITALY"} -> "italy"
      [] x = "Utilities" -> "utilities"
      [] x = "All" -> "all"
      [] x = "Other" -> "other"
      [] OTHER -> x

\* str.lower().str.contains("all")
ContainsAll(x) == Lower(x) = "all"

\* lines 198-222: the UPE, jurisdiction and sector filters
IB_filter(df) ==
    LET a == FilterRows(df, LAMBDA r : Lower(r["upe_name"]) = Lower(TARGET_COUNTRY("IB")))
        b == IF "jurisdiction" \in df.cols
             THEN FilterRows(a, LAMBDA r : ContainsAll(r["jurisdiction"])) ELSE a
    IN IF "sector" \in df.cols
       THEN FilterRows(b, LAMBDA r : Lower(r["sector"]) = Lower(TARGET_SECTOR)) ELSE b

\* main up to the first base: load, filter, the parameter lines of the report
IB_Load ==
    /\ variant = "IB" /\ pc = "load"
    /\ IF "upe_name" \notin df_raw.cols
       THEN /\ pc' = "returned"
            /\ log' = Append(log, <<"", "", "", "Column 'upe_name' not found!">>)
            /\ UNCHANGED <<df_raw, cycles, report_lines>>
       ELSE IF NRows(IB_filter(df_raw)) = 0
       THEN /\ pc' = "returned"
            /\ df_raw' = IB_filter(df_raw)
            /\ log' = Append(log, <<"", "", "", "No data left after filtering!">>)
            /\ UNCHANGED <<cycles, report_lines>>
       ELSE /\ pc' = "cycle"
            /\ df_raw' = IB_filter(df_raw)
            /\ cycles' = <<Cycle("tax_accrued", ""), Cycle("tax_paid", "")>>
            /\ report_lines' = report_lines \o
                 <<Text("", "", "ANALYSIS PARAMETERS:"), Text("", "", "Target UPE"),
                   Text("", "", "Target Jurisdiction"), Text("", "", "Target Sector"),
                   Text("", "", "rule")>>
            /\ log' = log
    /\ UNCHANGED <<variant, todo, bases, all_sheets, evals>>

IB_Cycle ==
    /\ variant = "IB" /\ pc = "cycle" /\ cycles # <<>>
    /\ \E tax \in {Head(cycles).tax} :
       \E res \in {IB_create_global_clean_bases(df_raw, tax)} :
          IF res.raised
          THEN /\ pc' = "crashed"
               /\ UNCHANGED <<variant, df_raw, cycles, todo, bases, all_sheets,
                              report_lines, log, evals>>
          ELSE
            \E calls1 \in {<<Call("b1", Formula(FALSE, <<>>, FALSE), <<tax, "", "B1", "Linear">>),
                            Call("b1", Formula(TRUE, <<>>, FALSE), <<tax, "", "B1", "Non-Linear">>)>>} :
            \E calls2 \in {IF NRows(res.gb2) > 0
                          THEN <<Call("b2", Formula(TRUE, res.logged_controls, TRUE), <<tax, "", "B2", "Controls">>)>>
                          ELSE <<>>} :
               /\ df_raw' = res.df
               /\ bases' = [built |-> TRUE, tax |-> tax, method |-> "",
                            has1 |-> TRUE, has2 |-> TRUE,
                            gb1 |-> res.gb1, gb2 |-> res.gb2,
                            ctrls |-> res.logged_controls,
                            b1 |-> res.gb1, b2 |-> res.gb2,
                            src |-> df_raw, cc |-> res.cc]
               /\ all_sheets' = all_sheets \o
                      <<Sheet(<<"", tax, "Base1">>, res.gb1),
                        Sheet(<<"", tax, "Base2">>, res.gb2)>>
               /\ report_lines' = Append(report_lines, Text(tax, "", "header"))
               /\ todo' = calls1 \o calls2
               /\ cycles' = Tail(cycles)
               /\ pc' = "regress"
               /\ evals' = [evals EXCEPT !.ln = @ \cup res.lnArgs,
                                         !.etrDen = @ \cup res.etrDen]
               /\ UNCHANGED <<variant, log>>

IB_Regress ==
    /\ variant = "IB" /\ pc = "regress" /\ todo # <<>>
    /\ \E c \in {Head(todo)} :
       \E df \in {CallTable(c)} :
       \E fit \in FitChoices(df, c.f) :
       \E blk \in {IB_run_regression(df, c.f, c.title, fit)} :
          /\ report_lines' = appended(report_lines, blk)
          /\ evals' = [evals EXCEPT !.tpDen = @ \cup blk.den]
    /\ todo' = Tail(todo)
    /\ pc' = After(Tail(todo), cycles)
    /\ UNCHANGED <<variant, df_raw, cycles, bases, all_sheets, log>>

----------------------------------------------------------------------------
(* Italy_Comprehensive_Tax_Study.main *)

IC_Load ==
    /\ variant = "IC" /\ pc = "load"
    /\ df_raw' = IC_load_and_standardize_data(df_raw)
    /\ cycles' = <<Cycle("tax_accrued", "CC"), Cycle("tax_accrued", "Imputation"),
                   Cycle("tax_paid", "CC"), Cycle("tax_paid", "Imputation")>>
    /\ pc' = "cycle"
    /\ UNCHANGED <<variant, todo, bases, all_sheets, report_lines, log, evals>>

\* a faulty imputer built without min_value
ImputeChoices_Unfloored == {Num(0), Num(2)}

\* values IterativeImputer(min_value=0.1) may fill in
ImputeChoices == {Rat(1, 10), Num(2)}

\* IterativeImputer(..., max_iter=20, ...)
max_iter == 20

\* the rounds the loop of a fit may make: it stops early on convergence and at
\* max_iter at the latest; no round when fit_transform was not called or raised
n_iter_(imp) ==
    IF imp.fitted /\ imp.out.cols # {} THEN {1, max_iter} ELSE {0}

\* the cells the imputer of this call fills
IC_FillCells(df, tax, method) ==
    IF method = "Imputation" /\ "upe_name" \in df.cols /\ IC_cols(tax) \subseteq df.cols
    THEN NaNCells(IC_candidate(df, tax)) ELSE {}

IC_controls == <<"ln_employees", "ln_tangible_assets", "ln_related_revenues">>

\* one pass of the loops of main up to the first regression call
IC_Cycle ==
    /\ variant = "IC" /\ pc = "cycle" /\ cycles # <<>>
    /\ \E tax \in {Head(cycles).tax} :
       \E method \in {Head(cycles).method} :
       \E fill \in [IC_FillCells(df_raw, tax, method) -> ImputeChoices] :
       \E res \in {prepare_data_and_analyze(df_raw, tax, method, fill)} :
       \E imp \in {[res.imp EXCEPT !.iters = i] : i \in n_iter_(res.imp)} :
             IF res.raised
             THEN /\ pc' = "crashed"
                  /\ evals' = [evals EXCEPT !.imp = imp]
                  /\ UNCHANGED <<cycles, todo, bases, all_sheets, report_lines>>
             ELSE IF res.none \/ NRows(res.data) = 0
             THEN /\ report_lines' = report_lines \o
                       <<Text(tax, method, "header"), Text(tax, method, "Failed/Empty.")>>
                  /\ bases' = IF res.none THEN NoBases
                              ELSE [NoBases EXCEPT !.built = TRUE, !.tax = tax,
                                      !.method = method, !.has2 = TRUE,
                                      !.gb2 = res.data, !.b2 = res.data,
                                      !.ctrls = IC_controls,
                                      !.src = df_raw, !.cc = res.cc]
                  /\ evals' = IF res.none THEN [evals EXCEPT !.imp = imp]
                              ELSE [evals EXCEPT !.ln = @ \cup res.lnArgs,
                                                 !.etrDen = @ \cup res.etrDen,
                                                 !.imp = imp]
                  /\ cycles' = Tail(cycles)
                  /\ pc' = After(<<>>, Tail(cycles))
                  /\ UNCHANGED <<todo, all_sheets>>
             ELSE
               \E calls \in {IF NRows(res.data) > IC_MIN_OBS
                            THEN <<Call("b2", Formula(FALSE, IC_controls, TRUE), <<tax, method, "B2", "Linear">>),
                                   Call("b2", Formula(TRUE, IC_controls, TRUE), <<tax, method, "B2", "Non-Linear">>)>>
                            ELSE <<>>} :
                  /\ all_sheets' = Append(all_sheets, Sheet(<<"", tax, method>>, res.data))
                  /\ bases' = [NoBases EXCEPT !.built = TRUE, !.tax = tax,
                                 !.method = method, !.has2 = TRUE,
                                 !.gb2 = res.data, !.b2 = res.data,
                                 !.ctrls = IC_controls,
                                 !.src = df_raw, !.cc = res.cc]
                  /\ report_lines' = report_lines \o
                       <<Text(tax, method, "header"), Text(tax, method, "N =")>> \o
                       (IF NRows(res.data) > IC_MIN_OBS THEN <<>>
                        ELSE <<Block("insufficient", <<tax, method, "B2", "Insufficient data for regression.">>)>>)
                  /\ evals' = [evals EXCEPT !.ln = @ \cup res.lnArgs,
                                            !.etrDen = @ \cup res.etrDen,
                                            !.imp = imp]
                  /\ todo' = calls
                  /\ cycles' = Tail(cycles)
                  /\ pc' = After(calls, Tail(cycles))
    /\ UNCHANGED <<variant, df_raw, log>>

IC_Regress ==
    /\ variant = "IC" /\ pc = "regress" /\ todo # <<>>
    /\ \E c \in {Head(todo)} :
       \E df \in {CallTable(c)} :
       \E fit \in FitChoices(IC_drop_infinite(df), c.f) :
       \E blk \in {IC_run_regression(df, c.f, c.title, fit)} :
          /\ report_lines' = appended(report_lines, blk)
          /\ evals' = [evals EXCEPT !.tpDen = @ \cup blk.den]
    /\ todo' = Tail(todo)
    /\ pc' = After(Tail(todo), cycles)
    /\ UNCHANGED <<variant, df_raw, cycles, bases, all_sheets, log>>

----------------------------------------------------------------------------
(* analysis_script.Pipeline *)

\* Pipeline.run up to the first cycle: the cleaner and the master sheet
AS_Load ==
    /\ variant = "AS" /\ pc = "load"
    /\ \E res \in {create_master_clean_file(df_raw, TARGET_COUNTRY("AS"))} :
          IF res.raised
          THEN /\ pc' = "crashed"
               /\ UNCHANGED <<df_raw, cycles, all_sheets>>
          ELSE /\ df_raw' = res.df
               /\ all_sheets' = Append(all_sheets, Sheet(<<"MASTER_CLEANED_DATA", "", "">>, res.df))
               /\ cycles' = <<Cycle("tax_accrued", ""), Cycle("tax_paid", "")>>
               /\ pc' = "cycle"
    /\ UNCHANGED <<variant, todo, bases, report_lines, log, evals>>

LnNames(cs) == [i \in DOMAIN cs |-> LnName(cs[i])]

\* Pipeline._run_cycle up to its first regression call
AS_Cycle ==
    /\ variant = "AS" /\ pc = "cycle" /\ cycles # <<>>
    /\ \E tax \in {Head(cycles).tax} :
       \E res \in {prepare_datasets(df_raw, tax)} :
          IF res.raised
          THEN /\ pc' = "crashed"
               /\ UNCHANGED <<cycles, todo, bases, all_sheets, report_lines, log, evals>>
          ELSE IF res.none
          THEN /\ log' = Append(log, <<tax, "", "", "[Analyzer] Warning: missing.">>)
               /\ bases' = NoBases
               /\ cycles' = Tail(cycles)
               /\ pc' = After(<<>>, Tail(cycles))
               /\ UNCHANGED <<todo, all_sheets, report_lines, evals>>
          ELSE
            \E calls1 \in {<<Call("b1", Formula(FALSE, <<>>, FALSE), <<tax, "", "B1", "M1">>),
                            Call("b1", Formula(TRUE, <<>>, FALSE), <<tax, "", "B1", "M2">>)>>} :
            \E calls2 \in {IF res.valid_controls # <<>>
                          THEN <<Call("b2", Formula(FALSE, LnNames(res.valid_controls), TRUE), <<tax, "", "B2", "M3">>),
                                 Call("b2", Formula(TRUE, LnNames(res.valid_controls), TRUE), <<tax, "", "B2", "M4">>)>>
                          ELSE <<>>} :
               /\ bases' = [built |-> TRUE, tax |-> tax, method |-> "",
                            has1 |-> TRUE, has2 |-> TRUE,
                            gb1 |-> res.base1, gb2 |-> res.base2,
                            ctrls |-> LnNames(res.valid_controls),
                            b1 |-> res.base1, b2 |-> res.base2,
                            src |-> df_raw, cc |-> res.cc]
               /\ all_sheets' = all_sheets \o
                      <<Sheet(<<"", tax, "BASE1">>, res.base1),
                        Sheet(<<"", tax, "BASE2">>, res.base2)>>
               /\ report_lines' = Append(report_lines, Text(tax, "", "header"))
               /\ todo' = calls1 \o calls2
               /\ cycles' = Tail(cycles)
               /\ pc' = "regress"
               /\ evals' = [evals EXCEPT !.ln = @ \cup res.lnArgs,
                                         !.etrDen = @ \cup res.etrDen]
               /\ log' = log
    /\ UNCHANGED <<variant, df_raw>>

AS_Regress ==
    /\ variant = "AS" /\ pc = "regress" /\ todo # <<>>
    /\ \E c \in {Head(todo)} :
       \E df \in {CallTable(c)} :
       \E fit \in FitChoices(df, c.f) :
       \E blk \in {AS_run_regression(df, c.f, c.title, fit)} :
          /\ report_lines' = appended(report_lines, blk)
          /\ evals' = [evals EXCEPT !.tpDen = @ \cup blk.den]
    /\ todo' = Tail(todo)
    /\ pc' = After(Tail(todo), cycles)
    /\ UNCHANGED <<variant, df_raw, cycles, bases, all_sheets, log>>

----------------------------------------------------------------------------

\* the export at the end of main
Save ==
    /\ pc = "save"
    /\ pc' = "done"
    /\ UNCHANGED <<variant, df_raw, cycles, todo, bases, all_sheets, report_lines,
                   log, evals>>

Next ==
    \/ G_Load \/ G_Cycle \/ G_Regress
    \/ IB_Load \/ IB_Cycle \/ IB_Regress
    \/ IC_Load \/ IC_Cycle \/ IC_Regress
    \/ AS_Load \/ AS_Cycle \/ AS_Regress
    \/ Save

Spec == Init /\ [][Next]_vars

----------------------------------------------------------------------------
(* Two calls of prepare_data_and_analyze(df, tax_col, 'Imputation') on one table.
   bases.tax is the tax basis of both calls, all_sheets holds what each call
   returned, bases.cc what a call for another combination made in between
   returned. *)

MaxRng == 3

\* the states the global random generator may be in when a call is made
GlobalRngStates == 0 .. MaxRng

\* a faulty imputer built without random_state: it draws from the global generator
random_state_Unseeded(g) == g

\* IterativeImputer(min_value=0.1, max_iter=20, random_state=42): the seed of the
\* imputer a call builds, whatever state g the global generator is in
random_state(g) == 42

\* the value an imputer seeded with s fills in
Draw(s) == IF s % 2 = 0 THEN Rat(1, 10) ELSE Num(2)

\* the values the imputer built by a call made in state g fills into table t
Imputer(g, t) == [rc \in NaNCells(t) |-> Draw(random_state(g))]

\* what a call returned, as a sheet: the outcome and the table
Returned(res, tax) ==
    IF res.raised THEN Sheet(<<"raised", tax, "">>, EmptyTable)
    ELSE IF res.none THEN Sheet(<<"none", tax, res.msg>>, EmptyTable)
    ELSE Sheet(<<"", tax, "">>, res.data)

InitRerun == Init /\ variant = "IC"

\* load_and_standardize_data, and the tax basis of the two calls
Rerun_Load ==
    /\ pc = "load"
    /\ df_raw' = IC_load_and_standardize_data(df_raw)
    /\ \E tax \in {"tax_accrued", "tax_paid"} : bases' = [bases EXCEPT !.tax = tax]
    /\ pc' = "first"
    /\ UNCHANGED <<variant, cycles, todo, all_sheets, report_lines, log, evals>>

\* one call with method 'Imputation', made in any state of the global generator
Rerun_Call ==
    /\ pc \in {"first", "second"}
    /\ \E g \in GlobalRngStates :
       \E fill \in {Imputer(g, IF IC_FillCells(df_raw, bases.tax, "Imputation") = {}
                               THEN EmptyTable ELSE IC_candidate(df_raw, bases.tax))} :
       \E res \in {prepare_data_and_analyze(df_raw, bases.tax, "Imputation", fill)} :
          /\ all_sheets' = Append(all_sheets, Returned(res, bases.tax))
          /\ evals' = [evals EXCEPT !.imp = res.imp]
    /\ pc' = IF pc = "first" THEN "second" ELSE "done"
    /\ UNCHANGED <<variant, df_raw, cycles, todo, bases, report_lines, log>>

\* a call for another combination made between the two
Rerun_Other ==
    /\ pc = "second" /\ ~bases.built
    /\ \E tax \in {"tax_accrued", "tax_paid"} :
       \E method \in {"CC", "Imputation"} :
       \E g \in GlobalRngStates :
       \E fill \in {Imputer(g, IF IC_FillCells(df_raw, tax, method) = {}
                               THEN EmptyTable ELSE IC_candidate(df_raw, tax))} :
       \E res \in {prepare_data_and_analyze(df_raw, tax, method, fill)} :
          /\ <<tax, method>> # <<bases.tax, "Imputation">>
          /\ bases' = [bases EXCEPT !.built = TRUE, !.method = method,
                                    !.cc = Returned(res, tax).t]
    /\ UNCHANGED <<variant, df_raw, pc, cycles, todo, all_sheets, report_lines, log, evals>>

NextRerun == Rerun_Load \/ Rerun_Call \/ Rerun_Other

SpecRerun == InitRerun /\ [][NextRerun]_vars

----------------------------------------------------------------------------
(* Properties of the analysis bases *)

\* the bases the builder of the current cycle returned
BaseTables ==
    (IF bases.has1 THEN {bases.gb1} ELSE {}) \cup (IF bases.has2 THEN {bases.gb2} ELSE {})

\* the numeric reading of an input cell: a number, or absent
CellValue(x) == IF x.k = "str" THEN (IF x.d = 1 THEN Num(x.n) ELSE NaN) ELSE x

\* a cell holds a number (or +inf) above zero
Positive(x) == x.k \in {"num", "inf"} /\ x.n > 0

\* y is the natural logarithm of the positive x
IsLogOf(y, x) ==
    IF x.k = "num" THEN y = [k |-> "ln", n |-> x.n, d |-> x.d] ELSE y = Inf(1)

\* the control a logged name stands for
ControlOf(name) == CHOOSE c \in Range(controls) : LnName(c) = name

\* C1: in every base a builder returns (Base 1 and Base 2, accrued and paid,
\* complete-case and imputation) every row has ETR_MIN <= ETR < ETR_MAX, its ETR
\* is its tax divided by its profit_before_tax, and its ETR_sq is ETR * ETR.
C1_EtrWindowAndSquare ==
    \A t \in BaseTables : \A r \in DOMAIN t.rows :
       /\ r.ETR.k = "num" /\ r[bases.tax].k = "num"
       /\ ETR_MIN * r.ETR.d <= r.ETR.n
       /\ r.ETR.n * ETR_MAX(variant).d < ETR_MAX(variant).n * r.ETR.d
       /\ IF r.profit_before_tax.k = "num"
          THEN r.ETR.n * r[bases.tax].d * r.profit_before_tax.n
                 = r[bases.tax].n * r.profit_before_tax.d * r.ETR.d
          ELSE r.ETR.n = 0
       /\ r.ETR_sq.k = "num"
       /\ r.ETR_sq.n * r.ETR.d * r.ETR.d = r.ETR.n * r.ETR.n * r.ETR_sq.d

\* an imputation base holds a row whose tax the imputer filled in (1/10 on a
\* profit of 4, an ETR of 1/40)
C1_Witness ==
    /\ variant = "IC" /\ bases.built /\ bases.method = "Imputation"
    /\ \E s \in DOMAIN bases.src.rows : isna(s[bases.tax])
    /\ \E r \in DOMAIN bases.gb2.rows :
          r[bases.tax] = Rat(1, 10) /\ r.ETR = Rat(1, 40) /\ r.ETR_sq = Rat(1, 1600)

\* C2: in every base every row has profit_before_tax > 0 and ln_profits is its
\* logarithm; in every Base 2 every control of the returned control list is a
\* column, is above zero in every row, and its ln_ column is the logarithm of
\* that positive value.
C2_PositiveProfitAndControls ==
    /\ \A t \in BaseTables : \A r \in DOMAIN t.rows :
          /\ Positive(r.profit_before_tax)
          /\ IsLogOf(r.ln_profits, r.profit_before_tax)
    /\ bases.has2 =>
          \A name \in Range(bases.ctrls) :
             /\ {ControlOf(name), name} \subseteq bases.gb2.cols
             /\ \A r \in DOMAIN bases.gb2.rows :
                   /\ Positive(r[ControlOf(name)])
                   /\ IsLogOf(r[name], r[ControlOf(name)])

\* a Base 2 with rows and logged controls, built from a table in which a row
\* that had every value present held a control of zero
C2_Witness ==
    /\ variant = "G" /\ bases.built /\ bases.ctrls # <<>>
    /\ NRows(bases.gb2) > 0
    /\ \E r \in DOMAIN bases.cc.rows : r.employees = Num(0)

\* the input fields of a record, read as numbers
RawKey(r) == [c \in RawCols |-> IF c \in StringCols THEN r[c] ELSE CellValue(r[c])]

\* an input record qualifies for Base 1: profit and tax present, profit > 0,
\* tax / profit in [ETR_MIN, ETR_MAX)
Qualifies(r, tax, v) ==
    LET p == CellValue(r.profit_before_tax)
        t == CellValue(r[tax])
    IN /\ ~isna(p) /\ ~isna(t)
       /\ Positive(p)
       /\ t.k = "num"
       /\ IF p.k = "num"
          THEN /\ ETR_MIN * t.d * p.n <= t.n * p.d
               /\ t.n * p.d * ETR_MAX(v).d < ETR_MAX(v).n * t.d * p.n
          ELSE ETR_MIN <= 0

\* the number of rows of t whose input fields are k and that satisfy P
KeyCount(t, k, P(_)) ==
    SumCounts(t.rows, {r \in DOMAIN t.rows : RawKey(r) = k /\ P(r)})

\* C3: Base 1 of the Germany and Italy baseline scripts holds exactly the rows
\* of the builder's input that qualify, each as often as the input holds it,
\* and a linear model fitted on Base 1 reports as N the number of its rows.
C3_Base1ExactlyQualifying ==
    (bases.built /\ variant \in {"G", "IB"}) =>
       /\ \A k \in {RawKey(r) : r \in DOMAIN bases.src.rows \cup DOMAIN bases.gb1.rows} :
             KeyCount(bases.gb1, k, LAMBDA r : TRUE)
               = KeyCount(bases.src, k, LAMBDA r : Qualifies(r, bases.tax, variant))
       /\ \A i \in DOMAIN report_lines :
             (/\ report_lines[i].kind = "fit" /\ ~report_lines[i].quad
              /\ report_lines[i].title[1] = bases.tax
              /\ report_lines[i].title[3] = "B1")
             => report_lines[i].n = NRows(bases.b1)

\* 20 records of positive profit, 5 of them outside the window: Base 1 has 15
\* rows and the linear fit on it reports N = 15
C3_Witness ==
    /\ variant \in {"G", "IB"} /\ bases.built
    /\ NRows(bases.src) = 20
    /\ \A r \in DOMAIN bases.src.rows : Positive(CellValue(r.profit_before_tax))
    /\ NRows(bases.gb1) = 15
    /\ \E i \in DOMAIN report_lines :
          /\ report_lines[i].kind = "fit" /\ ~report_lines[i].quad
          /\ report_lines[i].title[1] = bases.tax
          /\ report_lines[i].title[3] = "B1"
          /\ report_lines[i].n = 15

----------------------------------------------------------------------------
(* Properties of the U-test *)

\* the report entries that carry a turning-point verdict
Verdicts == {report_lines[i] : i \in {j \in DOMAIN report_lines : report_lines[j].verdict}}

\* the report entries of a fitted model
Fits == {report_lines[i] : i \in {j \in DOMAIN report_lines : report_lines[j].kind = "fit"}}

\* C4: the turning point reported for a quadratic model is -b1 / (2*b2) when
\* b2 # 0 and 0 when b2 = 0, no division by zero is made, and b1 = -0.4,
\* b2 = 0.8 give 0.25.
C4_TurningPoint ==
    /\ \A b \in Verdicts :
          /\ (b.b1.k = "num" /\ b.b2.k = "num" /\ b.b2.n # 0) =>
                /\ b.tp.k = "num"
                /\ b.tp.n * 2 * b.b2.n * b.b1.d = (-b.b1.n) * b.b2.d * b.tp.d
          /\ (b.b2.k = "num" /\ b.b2.n = 0) => b.tp = Num(0)
          /\ (b.b1 = Rat(-4, 10) /\ b.b2 = Rat(8, 10)) => b.tp.n * 4 = b.tp.d
    /\ \A x \in evals.tpDen : ~(x.k = "num" /\ x.n = 0)

\* one report holds a verdict of b2 = 0 with tp = 0 and a verdict of b1 = -0.4,
\* b2 = 0.8 with tp = 0.25
C4_Witness ==
    /\ \E b \in Verdicts : b.b2 = Num(0) /\ b.tp = Num(0)
    /\ \E b \in Verdicts :
          b.b1 = Rat(-4, 10) /\ b.b2 = Rat(8, 10) /\ b.tp.k = "num" /\ b.tp.n * 4 = b.tp.d

\* C5: the shape reported for a quadratic model is "Inverted U" for b2 < 0,
\* "U-Shape" for b2 > 0 and "degenerate", with tp = 0, for b2 = 0.
C5_ThreeWayShape ==
    \A b \in {x \in Verdicts : x.shape # ""} :
       /\ (b.b2.k = "num" /\ b.b2.n < 0) => b.shape = "Inverted U"
       /\ (b.b2.k = "num" /\ b.b2.n > 0) => b.shape = "U-Shape"
       /\ (b.b2.k = "num" /\ b.b2.n = 0) => (b.shape = "degenerate" /\ b.tp = Num(0))

\* the analysis script reports a quadratic model with b2 = 0 as a U-shape
C5_Witness ==
    /\ variant = "AS"
    /\ \E b \in Verdicts : b.b2 = Num(0) /\ b.tp = Num(0) /\ b.shape = "U-Shape" /\ b.n >= AS_MIN_OBS

\* C6: the in-range flag is YES exactly when min(ETR) <= tp <= max(ETR) over
\* the rows the model was fitted on (after the rows the regression step itself
\* removes), and NO otherwise.
C6_InRangeFlag ==
    \A b \in {x \in Verdicts : x.flag # ""} :
       /\ b.flag \in {"YES", "NO"}
       /\ b.flag = "YES" <=>
            /\ b.tp.k = "num"
            /\ \E x \in b.fittedEtr : x.k = "num" /\ x.n * b.tp.d <= b.tp.n * x.d
            /\ \E y \in b.fittedEtr : y.k = "num" /\ b.tp.n * y.d <= y.n * b.tp.d

\* the regression step of the comprehensive script removed rows (an infinite
\* profit, whose ETR is 0) and the turning point 1/8 lies below the ETR of every
\* row that was left: the flag is NO
C6_Witness ==
    /\ variant = "IC" /\ bases.built
    /\ \E b \in Verdicts :
          /\ b.title[1] = bases.tax /\ b.title[2] = bases.method
          /\ b.n < NRows(bases.b2)
          /\ Num(0) \in EtrValues(bases.b2) /\ Num(0) \notin b.fittedEtr
          /\ b.tp.k = "num" /\ b.tp.n * 8 = b.tp.d
          /\ b.flag = "NO"

\* C7: every entry of a fitted quadratic model carries the turning-point
\* verdict with a YES or NO in-range flag, in every script, and no entry of a
\* linear model carries a verdict.
C7_VerdictWithFlag ==
    \A b \in Fits :
       /\ b.quad => (b.verdict /\ b.flag \in {"YES", "NO"})
       /\ ~b.quad => (~b.verdict /\ b.flag = "")

\* the analysis script reports a fitted quadratic model with its turning point
\* and no in-range flag
C7_Witness ==
    /\ variant = "AS"
    /\ \E b \in Fits : b.quad /\ b.verdict /\ b.tp.k = "num" /\ b.flag = ""

----------------------------------------------------------------------------
(* Properties of main *)

\* the minimum number of observations of the running script
MinObs ==
    CASE variant = "G" -> G_MIN_OBS
      [] variant = "IB" -> IB_MIN_OBS
      [] variant = "IC" -> IC_MIN_OBS
      [] OTHER -> AS_MIN_OBS

\* base b of the current cycle is in use and has fewer rows than the minimum
TooSmall(b) ==
    \/ b = "B1" /\ bases.has1 /\ NRows(bases.b1) < MinObs
    \/ /\ b = "B2" /\ bases.has2 /\ NRows(bases.b2) < MinObs
       /\ variant = "AS" => bases.ctrls # <<>>

\* a title or log entry is about base b of the current cycle
About(title, b) == title[1] = bases.tax /\ title[2] = bases.method /\ title[3] = b

\* the report or the log says that base b has too few rows
SaidInsufficient(b) ==
    \/ \E i \in DOMAIN report_lines :
          report_lines[i].kind = "insufficient" /\ About(report_lines[i].title, b)
    \/ \E i \in DOMAIN log : About(log[i], b)
    \/ \E i \in DOMAIN report_lines :
          report_lines[i] = Text(bases.tax, bases.method, "Failed/Empty.")

\* C8: once the regressions of a cycle are through, a base with fewer rows than
\* the minimum of the script has no fitted model and has an insufficient-data
\* outcome instead, Base 1 and Base 2 alike.
C8_InsufficientData ==
    (bases.built /\ pc \in {"cycle", "save", "done"}) =>
       \A b \in {"B1", "B2"} :
          TooSmall(b) =>
             /\ ~\E x \in Fits : About(x.title, b)
             /\ SaidInsufficient(b)

\* the Germany script is through with a cycle whose Base 1 has 5 rows: the
\* report and the log say nothing about Base 1
C8_Witness ==
    /\ variant = "G" /\ bases.built /\ pc \in {"cycle", "save", "done"}
    /\ NRows(bases.b1) = 5
    /\ ~\E x \in Fits : About(x.title, "B1")
    /\ ~SaidInsufficient("B1")

\* control c is a column of the builder's input and is zero in every row
AllZero(c) ==
    /\ c \in bases.src.cols /\ NRows(bases.src) > 0
    /\ \A r \in DOMAIN bases.src.rows : EqZero(CellValue(r[c]))

\* C9: a control that is zero in every row of the builder's input is not in the
\* control list the builder returns, and ln is never applied to a zero.
C9_ZeroControlLeftOut ==
    /\ (bases.built /\ variant \in {"G", "IB", "AS"}) =>
          \A c \in Range(controls) : AllZero(c) => LnName(c) \notin Range(bases.ctrls)
    /\ \A x \in evals.ln : ~EqZero(x)

\* the Germany builder returns ln_employees in its control list for a table
\* whose employees column is zero in every row, with an empty Base 2
C9_Witness ==
    /\ variant = "G" /\ bases.built
    /\ AllZero("employees")
    /\ "ln_employees" \in Range(bases.ctrls)
    /\ NRows(bases.gb1) > 0 /\ NRows(bases.gb2) = 0

\* the complete-case deletion of the current cycle: of the Base 2 of the
\* baseline scripts, of the Complete-Case method of the comprehensive script
HasCompleteCase ==
    bases.built /\ (variant \in {"G", "IB"} \/ (variant = "IC" /\ bases.method = "CC"))

\* the table the complete-case deletion is applied to
CompleteCaseInput ==
    IF variant = "IC" THEN WhereEq(bases.src, "upe_name", TARGET_COUNTRY("IC"))
    ELSE bases.src

\* the columns the complete-case deletion looks at: profit, the tax basis and
\* the requested controls
NeededCols ==
    {"profit_before_tax", bases.tax}
      \cup (IF variant = "IC" THEN Range(controls)
            ELSE Range(controls) \cap bases.src.cols)

NeededKey(r) == [c \in NeededCols |-> CellValue(r[c])]

\* the number of rows of t whose needed fields are k and that satisfy P
NeededCount(t, k, P(_)) ==
    SumCounts(t.rows, {r \in DOMAIN t.rows : NeededKey(r) = k /\ P(r)})

\* C10 as stated: the complete-case deletion keeps exactly the rows with no
\* absent value in profit, the tax basis and the requested controls.
C10_CompleteCaseExact ==
    HasCompleteCase =>
       \A k \in {NeededKey(r) : r \in DOMAIN CompleteCaseInput.rows \cup DOMAIN bases.cc.rows} :
          NeededCount(bases.cc, k, LAMBDA r : TRUE)
            = NeededCount(CompleteCaseInput, k,
                          LAMBDA r : \A c \in NeededCols : ~isna(CellValue(r[c])))

\* a value counts as absent: the absent marker, and in the comprehensive script
\* a control of zero as well
CountsAsAbsent(c, x) ==
    isna(x) \/ (variant = "IC" /\ c \in Range(controls) /\ EqZero(x))

\* C10 amended: the complete-case deletion keeps exactly the rows with no
\* absent value in profit, the tax basis and the requested controls, where the
\* comprehensive script counts a control of zero as absent.
C10_CompleteCaseZeroAbsent ==
    HasCompleteCase =>
       \A k \in {NeededKey(r) : r \in DOMAIN CompleteCaseInput.rows \cup DOMAIN bases.cc.rows} :
          NeededCount(bases.cc, k, LAMBDA r : TRUE)
            = NeededCount(CompleteCaseInput, k,
                          LAMBDA r : \A c \in NeededCols :
                                        ~CountsAsAbsent(c, CellValue(r[c])))

\* the Complete-Case method of the comprehensive script dropped a row whose
\* only fault is a control of zero, and kept other rows
C10_Witness ==
    /\ variant = "IC" /\ bases.built /\ bases.method = "CC"
    /\ NRows(bases.cc) > 0
    /\ NRows(bases.cc) < NRows(CompleteCaseInput)
    /\ \E r \in DOMAIN CompleteCaseInput.rows :
          /\ r.employees = Num(0)
          /\ \A c \in NeededCols : ~isna(CellValue(r[c]))

----------------------------------------------------------------------------
(* Properties of the missing-data strategies *)

\* the table the comprehensive script selects for the current cycle: the rows
\* of the country, the columns of the cycle
SelectedInput ==
    Select(WhereEq(bases.src, "upe_name", TARGET_COUNTRY("IC")), IC_cols(bases.tax))

\* C11: the Complete-Case step is idempotent: applied to its own output it
\* returns the same rows, for every table the comprehensive script selects;
\* the table the Complete-Case method leaves is the output of that step.
C11_CompleteCaseIdempotent ==
    (variant = "IC" /\ bases.built) =>
       /\ IC_complete_case(IC_complete_case(SelectedInput)) = IC_complete_case(SelectedInput)
       /\ bases.method = "CC" => bases.cc = IC_complete_case(SelectedInput)

\* the Complete-Case method dropped the rows with an absent control and kept
\* the others, and the step applied to what it kept drops nothing
C11_Witness ==
    /\ variant = "IC" /\ bases.built /\ bases.method = "CC"
    /\ \E r \in DOMAIN SelectedInput.rows : isna(r.employees)
    /\ NRows(bases.cc) > 0
    /\ NRows(bases.cc) < NRows(SelectedInput)
    /\ IC_complete_case(bases.cc) = bases.cc

\* C12: with a minimum of 5 rows, Multiple Imputation fits and applies the
\* imputer exactly when the candidate table has at least 5 rows; with fewer
\* rows the imputer is not fitted and the call returns no table and the
\* message "Insufficient data".
C12_ImputerFitsFromMinimum ==
    evals.imp.called =>
       /\ evals.imp.fitted <=> evals.imp.n >= IC_MIN_IMPUTE
       /\ evals.imp.n < IC_MIN_IMPUTE =>
             (~evals.imp.fitted /\ evals.imp.none /\ evals.imp.msg = "Insufficient data")

\* a candidate table of exactly 5 rows: the imputer is not fitted and the call
\* returns "Insufficient data"
C12_Witness ==
    /\ evals.imp.called /\ evals.imp.n = 5
    /\ ~evals.imp.fitted /\ evals.imp.none /\ evals.imp.msg = "Insufficient data"

\* C13: under Multiple Imputation every control value the imputer is fitted on
\* as an observed value is above zero: zeros and negative values have been
\* replaced by the absent marker before the fit.
C13_ImputerSeesPositiveControls ==
    evals.imp.fitted => \A x \in evals.imp.seen : Positive(x)

\* the imputer is fitted on a table in which the zeros of employees are absent
\* and a negative value of employees is an observed value
C13_Witness ==
    /\ variant = "IC" /\ bases.built /\ evals.imp.fitted
    /\ \E r \in DOMAIN bases.src.rows : r.employees = Num(0)
    /\ Num(0) \notin evals.imp.seen
    /\ Num(-2) \in evals.imp.seen

\* C14: after a Multiple Imputation step that succeeded no absent value is
\* left in profit_before_tax, the tax basis or a control, and every value the
\* imputer filled in is at least 0.1.
C14_ImputedCompleteAndFloored ==
    (evals.imp.fitted /\ evals.imp.out.cols # {}) =>
       /\ \A r \in DOMAIN evals.imp.out.rows : \A c \in evals.imp.out.cols : ~isna(r[c])
       /\ {"profit_before_tax"} \cup Range(controls) \subseteq evals.imp.out.cols
       /\ \A x \in evals.imp.filled : x.k = "num" /\ x.n * 10 >= x.d

\* the imputer filled the absent tax of some rows with the floor 0.1 and no
\* absent value is left
C14_Witness ==
    /\ variant = "IC" /\ bases.built /\ evals.imp.fitted /\ evals.imp.out.cols # {}
    /\ \E r \in DOMAIN SelectedInput.rows : isna(r[bases.tax])
    /\ Rat(1, 10) \in evals.imp.filled
    /\ \E r \in DOMAIN evals.imp.out.rows : r[bases.tax] = Rat(1, 10)

\* C15: Multiple Imputation is deterministic: two calls of
\* prepare_data_and_analyze with method 'Imputation' on the same table and the
\* same tax basis return the same table, whatever the global random generator
\* does and whatever call is made in between.
C15_ImputationDeterministic ==
    Len(all_sheets) = 2 => all_sheets[1] = all_sheets[2]

\* both calls imputed absent cells and returned rows, and a call for another
\* combination was made between them
C15_Witness ==
    /\ Len(all_sheets) = 2 /\ bases.built
    /\ NaNCells(IC_candidate(df_raw, bases.tax)) # {}
    /\ all_sheets[1].name[1] = "" /\ NRows(all_sheets[1].t) > 0
    /\ all_sheets[2].name[1] = "" /\ NRows(all_sheets[2].t) > 0

----------------------------------------------------------------------------
(* Properties of the failure handling *)

\* C16: a failure raised while fitting one regression formula is contained in
\* that call: the report gets a block that states the failure and its cause,
\* the run never stops with a regression call pending, and once the calls are
\* made no formula and no base of the run is left out.
C16_RegressionFailureContained ==
    /\ \A i \in DOMAIN report_lines :
          report_lines[i].kind = "failed" => report_lines[i].cause # ""
    /\ pc \in {"crashed", "returned"} => todo = <<>>
    /\ pc \in {"save", "done"} => (todo = <<>> /\ cycles = <<>>)

\* the fit of one formula of a combination failed, the report states the cause,
\* and the run went on to the blocks of the next combination and to the export
C16_Witness ==
    /\ pc = "done"
    /\ \E i, j \in DOMAIN report_lines :
          /\ i < j
          /\ report_lines[i].kind = "failed" /\ report_lines[i].cause # ""
          /\ report_lines[j].kind = "text"
          /\ report_lines[j].title[1] # report_lines[i].title[1]

\* base b of the current cycle is one the script regresses on
InUse(b) ==
    \/ b = "B1" /\ bases.has1
    \/ b = "B2" /\ bases.has2 /\ (variant = "AS" => bases.ctrls # <<>>)

\* the report has an entry about base b of the current cycle: a fit, a failure,
\* an insufficient-data text, or the Failed/Empty text of the combination
Reported(b) ==
    \/ \E i \in DOMAIN report_lines :
          /\ report_lines[i].kind \in {"fit", "failed", "insufficient"}
          /\ About(report_lines[i].title, b)
    \/ \E i \in DOMAIN report_lines :
          report_lines[i] = Text(bases.tax, bases.method, "Failed/Empty.")

\* the report has a text about what the warning e of the log is about
InReport(e) ==
    \E i \in DOMAIN report_lines :
       /\ report_lines[i].kind \in {"text", "failed", "insufficient"}
       /\ report_lines[i].title[4] \notin {"header", "N ="}
       /\ report_lines[i].title[1] = e[1] /\ report_lines[i].title[2] = e[2]
       /\ e[3] # "" => report_lines[i].title[3] = e[3]

\* C17: every stage that is skipped or fails adds a text entry to the final
\* report: every warning the run gives is about something the report has a
\* text for, and once the calls of a cycle are made every base the script
\* regresses on has an entry in the report.
C17_EverySkipReported ==
    /\ \A i \in DOMAIN log : InReport(log[i])
    /\ (bases.built /\ pc \in {"cycle", "save", "done"}) =>
          \A b \in {"B1", "B2"} : InUse(b) => Reported(b)

\* the Germany script has exported a report that has only the two headers: both
\* bases of both tax bases were skipped, Base 2 with a warning in the log only
C17_Witness ==
    /\ variant = "G" /\ pc = "done"
    /\ Len(log) = 2 /\ \A i \in DOMAIN log : log[i][3] = "B2"
    /\ Len(report_lines) = 2
    /\ \A i \in DOMAIN report_lines : report_lines[i].title[4] = "header"
    /\ NRows(bases.b1) = 5

\* C18: for every loaded input table, tables that lack a column and tables
\* left with no rows included, the run raises no uncaught error and does not
\* return before the export step.
C18_AlwaysReachesExport ==
    pc \notin {"crashed", "returned"}

\* the Germany script was given a table without the tax_paid column: the
\* accrued section is in the report and the run stopped with an uncaught error
\* in the builder of the paid section, before the export
C18_Witness ==
    /\ variant = "G" /\ pc = "crashed"
    /\ "tax_paid" \notin df_raw.cols
    /\ cycles # <<>> /\ Head(cycles).tax = "tax_paid"
    /\ report_lines # <<>>

----------------------------------------------------------------------------
(* Properties of the source table *)

\* C19: building the bases of a combination leaves the source table unchanged:
\* every cell of the table passed to the builder has the same value after the
\* builder returned.
C19_SourceTableUnchanged ==
    bases.built => df_raw = bases.src

\* the Germany builder was given a table with a text in a financial column and
\* returned bases; the text is no longer in the source table
C19_Witness ==
    /\ variant = "G" /\ bases.built
    /\ \E r \in DOMAIN bases.src.rows : \E c \in bases.src.cols \ StringCols : r[c].k = "str"
    /\ \A r \in DOMAIN df_raw.rows : \A c \in df_raw.cols \ StringCols : r[c].k # "str"
    /\ NRows(df_raw) = NRows(bases.src)

\* the financial attributes
FinancialCols ==
    {"profit_before_tax", "tax_accrued", "tax_paid", "employees", "tangible_assets",
     "related_revenues"}

\* main holds the table the schema normalizer returned and has built no base yet
Normalized == pc = "cycle" /\ ~bases.built /\ report_lines = <<>>

\* C20: in the table the schema normalizer returned every financial attribute
\* holds a number or the absent marker in every row: no text survives the
\* normalization.
C20_FinancialCellsNumeric ==
    Normalized =>
       \A r \in DOMAIN df_raw.rows : \A c \in FinancialCols \cap df_raw.cols :
          r[c].k \in {"num", "nan", "inf"}

\* the Germany loader returned a table whose profit_before_tax holds a text
\* that is no number in some row
C20_Witness ==
    /\ variant = "G" /\ Normalized
    /\ \E r \in DOMAIN df_raw.rows : r["profit_before_tax"] = TextJunk

----------------------------------------------------------------------------
(* Properties of the order of the builder steps *)

\* C21: every base builder drops the rows with an absent profit or tax, keeps
\* profit_before_tax > 0, and only then computes ETR: no tax is ever divided by
\* a profit_before_tax that is zero or negative, and every step narrows the row
\* set: Base 2 has no more rows than the complete-case table, and no table has
\* more rows than the source table.
C21_StepsInOrder ==
    /\ \A x \in evals.etrDen : Positive(x)
    /\ bases.built =>
          /\ \A t \in BaseTables : NRows(t) <= NRows(bases.src)
          /\ bases.has2 => NRows(bases.gb2) <= NRows(bases.cc)
          /\ NRows(bases.cc) <= NRows(bases.src)

\* analysis_script has built bases from a table with a record of profit 0: the
\* tax of that record was divided by 0, and the record is in no base
C21_Witness ==
    /\ variant = "AS" /\ bases.built
    /\ \E r \in DOMAIN bases.src.rows : r.profit_before_tax = Num(0)
    /\ Num(0) \in evals.etrDen
    /\ \A t \in BaseTables : \A r \in DOMAIN t.rows : Positive(r.profit_before_tax)

----------------------------------------------------------------------------
(* Properties of the imputer's frame *)

\* row s is row r with its absent cells filled in and nothing else changed
FilledFrom(s, r, cols) ==
    \A c \in DOMAIN r : (c \notin cols \/ ~isna(r[c])) => s[c] = r[c]

\* C22: Multiple Imputation changes only cells that were absent in the columns
\* it works on: every row the imputer returns is a row it was given with the
\* absent cells filled in and every other cell as it was, every row it was
\* given is returned, and the table has as many rows and the same columns
\* after the imputation as before.
C22_ImputerChangesAbsentOnly ==
    (evals.imp.fitted /\ evals.imp.out.cols # {}) =>
       /\ evals.imp.out.cols = evals.imp.given.cols
       /\ NRows(evals.imp.out) = NRows(evals.imp.given)
       /\ \A r \in DOMAIN evals.imp.given.rows : \E s \in DOMAIN evals.imp.out.rows :
             FilledFrom(s, r, evals.imp.given.cols)
       /\ \A s \in DOMAIN evals.imp.out.rows : \E r \in DOMAIN evals.imp.given.rows :
             FilledFrom(s, r, evals.imp.given.cols)

\* the imputer was given rows with an absent tax and rows with a negative
\* control: it filled the tax and returned the negative control as it was
C22_Witness ==
    /\ variant = "IC" /\ bases.built /\ evals.imp.fitted /\ evals.imp.out.cols # {}
    /\ \E r \in DOMAIN evals.imp.given.rows : isna(r[bases.tax])
    /\ \E r \in DOMAIN evals.imp.given.rows : r.employees = Num(-2)
    /\ \E s \in DOMAIN evals.imp.out.rows : s.employees = Num(-2)
    /\ \A s \in DOMAIN evals.imp.out.rows : ~isna(s[bases.tax])

----------------------------------------------------------------------------
(* Properties of the run as a whole *)

\* the combinations of Italy_Comprehensive_Tax_Study.main, in the order of its loops
Combinations ==
    <<Cycle("tax_accrued", "CC"), Cycle("tax_accrued", "Imputation"),
      Cycle("tax_paid", "CC"), Cycle("tax_paid", "Imputation")>>

\* the combinations whose section header is in the report, in report order
RECURSIVE Processed(_)
Processed(lines) ==
    IF lines = <<>> THEN <<>>
    ELSE IF Head(lines).kind = "text" /\ Head(lines).title[4] = "header"
         THEN <<Cycle(Head(lines).title[1], Head(lines).title[2])>> \o Processed(Tail(lines))
         ELSE Processed(Tail(lines))

\* C23: every run of the comprehensive script terminates in its final state:
\* the combinations are processed once each, in the order of the loops, the
\* imputer's loop makes at most max_iter rounds, and the run does not stop
\* before the export and 'done'.
C23_TerminatesDone ==
    variant = "IC" =>
       /\ pc # "crashed"
       /\ evals.imp.iters <= max_iter
       /\ Processed(report_lines) \o cycles = (IF pc = "load" THEN <<>> ELSE Combinations)
       /\ pc \in {"save", "done"} => Processed(report_lines) = Combinations

\* the comprehensive script was given a table without the tax_paid column: it
\* processed both accrued combinations and kept a sheet for each, and the run
\* stopped with an uncaught error in the first paid combination
C23_Witness ==
    /\ variant = "IC" /\ pc = "crashed"
    /\ "tax_paid" \notin df_raw.cols
    /\ Processed(report_lines) = SubSeq(Combinations, 1, 2)
    /\ cycles = SubSeq(Combinations, 3, 4)
    /\ Len(all_sheets) = 2

\* the positions of the report that hold the block of a regression call
RegressionBlocks ==
    {i \in DOMAIN report_lines :
        /\ report_lines[i].kind \in {"fit", "failed", "insufficient"}
        /\ report_lines[i].title[4] \in
              {"Linear", "Non-Linear", "Controls", "M1", "M2", "M3", "M4"}}

\* the title of the linear model that is called right before a non-linear one
LinearOf(title) ==
    [title EXCEPT ![4] = CASE @ = "Non-Linear" -> "Linear"
                           [] @ = "M2" -> "M1"
                           [] @ = "M4" -> "M3"
                           [] OTHER -> @]

\* C24: the report holds one block per regression call, in call order: no two
\* blocks are of the same call, every accrued-tax block is above every
\* paid-tax block, the block of the non-linear model of a base is right below
\* the block of its linear model, and every block whose call is made is there
\* when the calls are through, whatever failed or was skipped.
C24_ReportInCallOrder ==
    /\ \A i, j \in RegressionBlocks :
          /\ (i # j) => report_lines[i].title # report_lines[j].title
          /\ (i < j) => ~(/\ report_lines[i].title[1] = "tax_paid"
                          /\ report_lines[j].title[1] = "tax_accrued")
    /\ \A j \in RegressionBlocks :
          LinearOf(report_lines[j].title) # report_lines[j].title =>
             /\ j - 1 \in RegressionBlocks
             /\ report_lines[j - 1].title = LinearOf(report_lines[j].title)
    /\ \A i \in RegressionBlocks :
          (/\ report_lines[i].title[4] \in {"Linear", "M1", "M3"}
           /\ pc \in {"cycle", "save", "done"}) =>
             /\ i + 1 \in RegressionBlocks
             /\ LinearOf(report_lines[i + 1].title) = report_lines[i].title

\* an exported report: a fitted Base 1 model of the accrued tax, below it the
\* failed Base 2 models of the accrued tax, below them a fitted Base 1 model of
\* the paid tax
C24_Witness ==
    /\ pc = "done"
    /\ \E i, j, k \in RegressionBlocks :
          /\ i < j /\ j < k
          /\ report_lines[i].kind = "fit" /\ report_lines[i].title[1] = "tax_accrued"
          /\ report_lines[j].kind = "failed" /\ report_lines[j].title[1] = "tax_accrued"
          /\ report_lines[k].kind = "fit" /\ report_lines[k].title[1] = "tax_paid"

----------------------------------------------------------------------------
(* Properties of the two bases of a call *)

\* what identifies a row of a base: its input fields read as numbers, and its
\* ETR, ETR_sq and ln_profits
BaseKey(r) ==
    [c \in RawCols \cup {"ETR", "ETR_sq", "ln_profits"} |->
       IF c \in StringCols THEN r[c] ELSE CellValue(r[c])]

\* how often table t holds a row identified by k
BaseKeyCount(t, k) == SumCounts(t.rows, {r \in DOMAIN t.rows : BaseKey(r) = k})

\* C25: the Base 2 a builder returns is a subset of the Base 1 of the same
\* call: every row of Base 2 is a row of Base 1, with the same ETR, ETR_sq and
\* ln_profits, and Base 2 holds it no more often than Base 1.
C25_Base2WithinBase1 ==
    (bases.built /\ bases.has1 /\ bases.has2) =>
       \A r \in DOMAIN bases.gb2.rows :
          /\ BaseKeyCount(bases.gb1, BaseKey(r)) >= BaseKeyCount(bases.gb2, BaseKey(r))
          /\ \E s \in DOMAIN bases.gb1.rows :
                /\ BaseKey(s) = BaseKey(r)
                /\ s.ETR = r.ETR /\ s.ETR_sq = r.ETR_sq /\ s.ln_profits = r.ln_profits

\* a call returned a Base 2 with rows and logged controls that has fewer rows
\* than its Base 1: rows of Base 1 hold a control that is absent or not above
\* zero
C25_Witness ==
    /\ bases.built /\ bases.has1 /\ bases.has2 /\ bases.ctrls # <<>>
    /\ NRows(bases.gb2) > 0
    /\ NRows(bases.gb2) < NRows(bases.gb1)
    /\ \E s \in DOMAIN bases.gb1.rows : ~Positive(CellValue(s.employees))

====
